---- MODULE Spec2Model ----
(***************************************************************************)
(* A model of `undead`, a finder of dead Python files (src/src/main.rs,    *)
(* src/src/printer.rs, src/src/cli.rs).                                    *)
(*                                                                         *)
(* Strings (and the paths built from them) are sequences of tokens: the    *)
(* two separators "." and "/" and a few atoms, none of which is a prefix   *)
(* of another, so equality and byte order of the strings agree with        *)
(* equality and lexicographic order of the token sequences.                *)
(***************************************************************************)
EXTENDS Integers, Sequences, FiniteSets, TLC

\* ------------------------------------------------------------------ bounds

\* The largest relative level ("from ... import x" has level 3) of a statement.
MaxLevel == 3
\* The largest number of names one import statement lists.
MaxNames == 2

\* ----------------------------------------------------------------- strings

\* The tokens in byte order ('.' 0x2E, '/' 0x2F, '_' 0x5F, then letters).
TokenOrder == <<".", "/", "__init__", "a", "b", "py", "r", "s">>

TokRank(t) == CHOOSE i \in 1..Len(TokenOrder) : TokenOrder[i] = t

\* The order of <, on String (what Vec<String>::sort uses).
RECURSIVE StrLess(_, _)
StrLess(x, y) ==
    IF y = <<>> THEN FALSE
    ELSE IF x = <<>> THEN TRUE
    ELSE IF Head(x) = Head(y) THEN StrLess(Tail(x), Tail(y))
    ELSE TokRank(Head(x)) < TokRank(Head(y))

StartsWith(s, p) == Len(p) <= Len(s) /\ SubSeq(s, 1, Len(p)) = p

EndsWith(s, p) == Len(p) <= Len(s) /\ SubSeq(s, Len(s) - Len(p) + 1, Len(s)) = p

\* str::strip_prefix(p).unwrap_or(s)
StripPrefixOr(s, p) == IF StartsWith(s, p) THEN SubSeq(s, Len(p) + 1, Len(s)) ELSE s

\* str::strip_suffix(p).unwrap_or(s)
StripSuffixOr(s, p) == IF EndsWith(s, p) THEN SubSeq(s, 1, Len(s) - Len(p)) ELSE s

\* str::replace(from, to), for one-token patterns
Replace(s, from, to) == [i \in 1..Len(s) |-> IF s[i] = from THEN to ELSE s[i]]

MAIN_SEPARATOR_STR == <<"/">>

PYTHON_INIT_FILE == <<"__init__", ".", "py">>

PYTHON_EXTENSION == <<".", "py">>

\* ------------------------------------------------------------------- paths

\* Option::None of a path
NoPath == <<>>

\* The position of the last separator of an absolute path.
LastSep(p) == CHOOSE i \in 1..Len(p) : p[i] = "/" /\ \A j \in (i+1)..Len(p) : p[j] # "/"

\* Path::parent: None for the filesystem root.
Parent(p) ==
    IF p = <<"/">> THEN NoPath
    ELSE IF LastSep(p) = 1 THEN <<"/">>
    ELSE SubSeq(p, 1, LastSep(p) - 1)

\* Path::file_name
FileName(p) == IF p = <<"/">> THEN NoPath ELSE SubSeq(p, LastSep(p) + 1, Len(p))

\* Path::join: an absolute path replaces the base.
Join(p, rel) ==
    IF rel # <<>> /\ Head(rel) = "/" THEN rel
    ELSE IF p = <<"/">> THEN p \o rel
    ELSE p \o <<"/">> \o rel

\* The directories above a path, nearest first.
RECURSIVE Ancestors(_)
Ancestors(p) == IF Parent(p) = NoPath THEN <<>> ELSE <<Parent(p)>> \o Ancestors(Parent(p))

SeqToSet(s) == {s[i] : i \in 1..Len(s)}

\* ------------------------------------------------------------- the project

DirR == <<"/", "r">>
DirS == <<"/", "r", "/", "s">>
FileRa == <<"/", "r", "/", "a", ".", "py">>
FileRb == <<"/", "r", "/", "b", ".", "py">>
FileSa == <<"/", "r", "/", "s", "/", "a", ".", "py">>
FileSInit == <<"/", "r", "/", "s", "/", "__init__", ".", "py">>
FileRsDotInit == <<"/", "r", "/", "s", ".", "__init__", ".", "py">>

\* Dotted names an import statement may carry.
NameA == <<"a">>
NameB == <<"b">>
NameS == <<"s">>
NameSA == <<"s", ".", "a">>
NameSB == <<"s", ".", "b">>

\* StmtImport: "import n1, n2"
StmtImport(names) ==
    [type |-> "Import", module |-> <<>>, has_module |-> FALSE, names |-> names,
     has_level |-> FALSE, level |-> 0]

\* StmtImportFrom: "from <level dots><module> import n1, n2"
StmtImportFrom(has_module, module, names, has_level, level) ==
    [type |-> "ImportFrom", module |-> module, has_module |-> has_module,
     names |-> names, has_level |-> has_level, level |-> level]

\* Sequences over S of length 1..n
RECURSIVE SeqsUpTo(_, _)
SeqsUpTo(S, n) ==
    IF n = 0 THEN {}
    ELSE {<<x>> : x \in S} \cup
         {s \o <<x>> : s \in SeqsUpTo(S, n - 1), x \in S}

\* A file: whether it holds the "if __name__ == '__main__':" idiom, whether
\* it parses, and its import statements in order.
File(main, parses, body) == [main |-> main, parses |-> parses, body |-> body]

\* The import statements the projects draw from.
PlainBodies == {<<>>, <<StmtImport(<<NameA>>)>>, <<StmtImport(<<NameS>>)>>}

ImportStmts == {StmtImport(ns) : ns \in SeqsUpTo({NameA, NameS, NameSA}, MaxNames)}

ImportFromStmts ==
    {StmtImportFrom(m[1], m[2], ns, l[1], l[2]) :
        m \in {<<FALSE, <<>> >>, <<TRUE, NameS>>, <<TRUE, NameSB>>, <<TRUE, NameA>>},
        ns \in SeqsUpTo({NameA, NameB}, MaxNames),
        l \in {<<FALSE, 0>>} \cup {<<TRUE, n>> : n \in 0..MaxLevel}}

\* Directory trees: the python files and the directories that carry a root
\* marker (pyproject.toml or .git; a setup.py marker would itself be a file).
PlainTrees ==
    {[files |-> {FileRa, FileRb}, markers |-> {DirR}],
     [files |-> {FileRa, FileSa}, markers |-> {DirR}],
     [files |-> {FileRa, FileSa}, markers |-> {DirR, DirS}],
     [files |-> {FileSa, FileSInit}, markers |-> {DirR}],
     [files |-> {FileRsDotInit, FileSInit}, markers |-> {DirR}],
     [files |-> {FileRa, FileSInit, FileSa}, markers |-> {DirR}],
     [files |-> {FileRa}, markers |-> {}]}

ImporterTrees ==
    {[files |-> {FileRa, FileSa}, markers |-> {DirR}],
     [files |-> {FileRa, FileSa}, markers |-> {DirR, DirS}]}

\* cli.paths: the target paths of a run.
TargetArgs == {<<DirR>>, <<DirS>>, <<DirR, DirR>>, <<DirR, DirS>>}

\* Projects whose files hold at most one plain import each.
PlainProjectsOf(t) ==
    {[files |-> t.files, markers |-> t.markers, content |-> c] :
        c \in [t.files -> {File(m, TRUE, b) : m \in BOOLEAN, b \in PlainBodies}]}

\* Projects in which one file holds one import statement of any shape and
\* the other file is empty, holds "import a", or does not parse.
ImporterProjectsOf(t) ==
    {[files |-> t.files, markers |-> t.markers,
      content |-> [g \in t.files |-> IF g = f THEN File(FALSE, TRUE, <<st>>) ELSE o]] :
        f \in t.files,
        st \in ImportStmts \cup ImportFromStmts,
        o \in {File(FALSE, TRUE, <<>>), File(FALSE, TRUE, <<StmtImport(<<NameA>>)>>),
               File(FALSE, FALSE, <<>>)}}

\* A run's inputs: the project on disk and cli.paths.  Plain projects are run
\* over every choice of targets that enumerates at most four entries, the
\* others over the outer directory.
Inputs ==
    UNION {{<<p, a>> : a \in {x \in TargetArgs : Len(x) * Cardinality(p.files) <= 4}} :
              p \in UNION {PlainProjectsOf(t) : t \in PlainTrees}}
    \cup {<<p, <<DirR>> >> : p \in UNION {ImporterProjectsOf(t) : t \in ImporterTrees}}

\* --------------------------------------------------------------- variables

VARIABLES
    fs,                 \* the project on disk (never written by the program)
    args,               \* cli.paths
    pc,                 \* main's position
    panic,              \* why the run aborted ("none" while it has not)
    walk_pending,       \* the target walk's entries not yet visited
    target_paths,       \* main.rs:31, the file queue of the target walk
    python_root,        \* main.rs:32
    all_paths,          \* main.rs:43
    visitor,            \* per file under the root: its resolver task (how many
                        \* statements it has visited, the imports it holds,
                        \* from_import_from's last base_import_path, how many
                        \* imports it has pushed, whether it returned Err)
    imports_queue,      \* compile_imports's SegQueue
    imports,            \* main.rs:44
    imports_hash_set,   \* main.rs:46
    potentially_dead_modules, \* main.rs:48
    dead_files,         \* main.rs:52
    stdin_terminal,     \* what is_terminal() answers: "unprobed", "tty" or "notty"
    output              \* the lines written, in order

vars ==
    <<fs, args, pc, panic, walk_pending, target_paths, python_root, all_paths, visitor,
      imports_queue, imports, imports_hash_set, potentially_dead_modules, dead_files,
      stdin_terminal, output>>

\* ----------------------------------------------------------- the filesystem

\* The directories of the project: every directory above a file.
Dirs == UNION {SeqToSet(Ancestors(f)) : f \in fs.files}

\* Path::is_dir
is_dir(p) == p \in Dirs

\* Path::exists, for a target path
exists(p) == p \in Dirs \cup fs.files

\* Whether file f lies below directory d.
Under(f, d) == StartsWith(f, Join(d, <<>>))

\* ------------------------------------------------------------ main.rs, pure

Module(name) == [kind |-> "Module", name |-> name]

Package(name) == [kind |-> "Package", name |-> name]

\* is_python_project_root: the directory holds one of the markers.
is_python_project_root(dir) == dir \in fs.markers

\* find_python_project_root: the first of start_dir and its ancestors that
\* holds a marker, None without one.
RECURSIVE find_python_project_root(_)
find_python_project_root(start_dir) ==
    IF is_python_project_root(start_dir) THEN start_dir
    ELSE IF Parent(start_dir) = NoPath THEN NoPath
    ELSE find_python_project_root(Parent(start_dir))

\* render_as_import_string without its strip_suffix step.
render_keeping_suffix(path, root) ==
    Replace(StripPrefixOr(path, root \o MAIN_SEPARATOR_STR), "/", ".")

\* render_as_import_string
render_as_import_string(path, root) ==
    LET prefix == root \o MAIN_SEPARATOR_STR
        stripped == StripSuffixOr(StripPrefixOr(path, prefix), PYTHON_EXTENSION)
    IN  Replace(stripped, "/", ".")

\* Import::from_import: one import per name, probed below the root.
from_import(stmt, root) ==
    [i \in 1..Len(stmt.names) |->
        LET alias_name == stmt.names[i]
            full_path == Join(root, Replace(alias_name, ".", "/"))
        IN  IF is_dir(full_path) THEN Package(alias_name) ELSE Module(alias_name)]

\* The loop of from_import_from: parent() n times, None once parent() is None
\* (where the code's unwrap panics).
RECURSIVE Ascend(_, _)
Ascend(p, n) ==
    IF n = 0 THEN p
    ELSE IF Parent(p) = NoPath THEN NoPath
    ELSE Ascend(Parent(p), n - 1)

\* base_import_path ascending from the file as if it were a directory: one
\* parent() too few.
base_import_path_one_short(stmt, current_file_path, root) ==
    IF stmt.has_level
    THEN IF stmt.level = 0 THEN root ELSE Ascend(current_file_path, stmt.level - 1)
    ELSE root

\* from_import_from, lines 152-170: the base directory of the statement.
base_import_path(stmt, current_file_path, root) ==
    IF stmt.has_level
    THEN IF stmt.level = 0 THEN root ELSE Ascend(current_file_path, stmt.level)
    ELSE root

\* from_import_from, lines 171-196, from the base directory on.
from_import_from(stmt, base, root) ==
    LET full_import_path ==
            IF stmt.has_module THEN Join(base, Replace(stmt.module, ".", "/")) ELSE base
    IN  IF stmt.has_module /\ ~is_dir(full_import_path)
        THEN <<Module(render_as_import_string(full_import_path, root))>>
        ELSE [i \in 1..Len(stmt.names) |->
                LET final_import_path == Join(full_import_path, stmt.names[i])
                    final_import == render_as_import_string(final_import_path, root)
                IN  IF is_dir(final_import_path)
                    THEN Package(final_import)
                    ELSE Module(final_import)]

\* resolve_imports: a package has "__init__.py" pushed onto its name.
resolve_imports(imps) ==
    [i \in 1..Len(imps) |->
        IF imps[i].kind = "Module" THEN imps[i].name
        ELSE imps[i].name \o PYTHON_INIT_FILE]

\* file_contains_name_equals_main
file_contains_name_equals_main(path) == fs.content[path].main

\* The filter of main.rs:34-41: neither an initializer nor an entrypoint.
no_entrypoint(path) ==
    IF FileName(path) = PYTHON_INIT_FILE THEN FALSE
    ELSE ~file_contains_name_equals_main(path)

\* main.rs:55: a module string back to a relative path.
dead_file_path(module) == Replace(module, ".", "/") \o PYTHON_EXTENSION

\* Vec::sort
RECURSIVE Insert(_, _)
Insert(x, s) ==
    IF s = <<>> THEN <<x>>
    ELSE IF StrLess(x, Head(s)) THEN <<x>> \o s
    ELSE <<Head(s)>> \o Insert(x, Tail(s))

RECURSIVE Sort(_)
Sort(s) == IF s = <<>> THEN <<>> ELSE Insert(Head(s), Sort(Tail(s)))

\* The entries a walk over paths yields: each path's files, a file once for
\* every path it lies under.  Every file of the model is a *.py file, which
\* the "python" type selects; the run is given no ignore globs.
walk_entries(paths) ==
    {e \in (1..Len(paths)) \X fs.files : Under(e[2], paths[e[1]])}

\* --------------------------------------------------------------- printer.rs

DEFAULT_SEPARATOR_SIZE == 80

\* Widths terminal_size() may report.
TerminalWidths == {DEFAULT_SEPARATOR_SIZE, DEFAULT_SEPARATOR_SIZE + 40}

Separator == [kind |-> "Separator", repr |-> <<>>, full_path |-> NoPath,
              scanned_files |-> 0, dead_files |-> 0]

DeadFile(repr, full_path) ==
    [kind |-> "DeadFile", repr |-> repr, full_path |-> full_path,
     scanned_files |-> 0, dead_files |-> 0]

Stats(scanned_files, n_dead) ==
    [kind |-> "Stats", repr |-> <<>>, full_path |-> NoPath,
     scanned_files |-> scanned_files, dead_files |-> n_dead]

\* What one print call writes.  form: "plain" (println!), "styled" (the
\* TerminalPrinter's coloured writeln!).  A plain separator is a blank line,
\* the dashes and a blank line; a plain Stats is its Debug rendering.
Written(form, printable, width, colour, link) ==
    [form |-> form, kind |-> printable.kind, repr |-> printable.repr, width |-> width,
     colour |-> colour, link |-> link,
     scanned_files |-> printable.scanned_files, dead_files |-> printable.dead_files]

\* Printer::print, the branch taken when is_terminal() is false.
print_plain(printable) ==
    Written("plain", printable,
            IF printable.kind = "Separator" THEN DEFAULT_SEPARATOR_SIZE ELSE 0,
            "none", NoPath)

\* Printer::print_generic on the TerminalPrinter; width is terminal_size().
print_generic(printable, width) ==
    IF printable.kind = "Separator" THEN Written("styled", printable, width, "cyan", NoPath)
    ELSE IF printable.kind = "DeadFile"
    THEN Written("styled", printable, 0, "green", printable.full_path)
    ELSE Written("styled", printable, 0, "yellow", NoPath)

\* Printer::print without the is_terminal() test.
print_always_generic(terminal, printable, width) == print_generic(printable, width)

\* Printer::print; terminal is what is_terminal() answers.
print(terminal, printable, width) ==
    IF terminal = "tty" THEN print_generic(printable, width)
    ELSE print_plain(printable)

\* -------------------------------------------------------------------- Init

NewVisitor == [visited |-> 0, imports |-> <<>>, base |-> NoPath, pushed |-> 0, failed |-> FALSE]

Init ==
    /\ \E in \in Inputs : fs = in[1] /\ args = in[2]
    /\ pc = "resolve_paths"
    /\ panic = "none"
    /\ walk_pending = {}
    /\ target_paths = <<>>
    /\ python_root = NoPath
    /\ all_paths = {}
    /\ visitor = <<>>
    /\ imports_queue = <<>>
    /\ imports = <<>>
    /\ imports_hash_set = {}
    /\ potentially_dead_modules = <<>>
    /\ dead_files = <<>>
    /\ stdin_terminal = "unprobed"
    /\ output = <<>>

\* A panic unwinds main: nothing more runs.
Abort(why) == pc' = "panicked" /\ panic' = why

\* ----------------------------------------------------------------- actions

\* resolve_paths (main.rs:28): canonicalize().unwrap() panics on a target
\* that does not exist.
ResolvePaths ==
    /\ pc = "resolve_paths"
    /\ IF \A i \in 1..Len(args) : exists(args[i])
       THEN pc' = "walk_targets" /\ walk_pending' = walk_entries(args) /\ panic' = panic
       ELSE Abort("canonicalize") /\ walk_pending' = walk_pending
    /\ UNCHANGED <<fs, args, target_paths, python_root, all_paths, visitor, imports_queue,
                   imports, imports_hash_set, potentially_dead_modules, dead_files,
                   stdin_terminal, output>>

\* parallel_build_path_iterator (main.rs:31): a walker thread visits one
\* entry and pushes it onto the file queue.
WalkVisit ==
    /\ pc = "walk_targets"
    /\ \E e \in walk_pending :
          /\ target_paths' = Append(target_paths, e[2])
          /\ walk_pending' = walk_pending \ {e}
    /\ UNCHANGED <<fs, args, pc, panic, python_root, all_paths, visitor, imports_queue,
                   imports, imports_hash_set, potentially_dead_modules, dead_files,
                   stdin_terminal, output>>

\* main.rs:32: the root is located from the first file of the queue;
\* target_paths[0] panics on an empty queue, unwrap() without a marker.
FindRoot ==
    /\ pc = "walk_targets"
    /\ walk_pending = {}
    /\ IF target_paths = <<>>
       THEN Abort("index_out_of_bounds") /\ python_root' = python_root
       ELSE IF find_python_project_root(target_paths[1]) = NoPath
       THEN Abort("root_not_found") /\ python_root' = python_root
       ELSE /\ python_root' = find_python_project_root(target_paths[1])
            /\ pc' = "walk_root"
            /\ panic' = panic
    /\ UNCHANGED <<fs, args, walk_pending, target_paths, all_paths, visitor, imports_queue,
                   imports, imports_hash_set, potentially_dead_modules, dead_files,
                   stdin_terminal, output>>

\* main.rs:43: the walk over the root.  The order of all_paths is never
\* read (it feeds a parallel iterator and len()), so it is kept as a set.
WalkRoot ==
    /\ pc = "walk_root"
    /\ all_paths' = {f \in fs.files : Under(f, python_root)}
    /\ visitor' = [f \in {g \in fs.files : Under(g, python_root)} |-> NewVisitor]
    /\ pc' = "compile"
    /\ UNCHANGED <<fs, args, panic, walk_pending, target_paths, python_root, imports_queue,
                   imports, imports_hash_set, potentially_dead_modules, dead_files,
                   stdin_terminal, output>>

\* A resolver task (the closure of compile_imports) has returned.
TaskDone(f) ==
    \/ visitor[f].failed
    \/ /\ fs.content[f].parses
       /\ visitor[f].visited = Len(fs.content[f].body)
       /\ visitor[f].pushed = Len(visitor[f].imports)

\* The queue drained as soon as one task has returned.
SomeProducerDone == \E f \in all_paths : TaskDone(f)

\* The collect() of compile_imports (main.rs:120) returns once every task has.
AllProducersDone == \A f \in all_paths : TaskDone(f)

\* extract_imports fails (the file does not parse): the task returns Err(())
\* and pushes nothing.
TaskParseError(f) ==
    /\ pc = "compile"
    /\ f \in all_paths
    /\ ~fs.content[f].parses
    /\ ~visitor[f].failed
    /\ visitor' = [visitor EXCEPT ![f].failed = TRUE]
    /\ UNCHANGED <<fs, args, pc, panic, walk_pending, target_paths, python_root, all_paths,
                   imports_queue, imports, imports_hash_set, potentially_dead_modules,
                   dead_files, stdin_terminal, output>>

\* extract_imports: the visitor takes the file's next statement.  A relative
\* import that ascends past the filesystem root panics in parent().unwrap().
TaskVisit(f) ==
    /\ pc = "compile"
    /\ f \in all_paths
    /\ fs.content[f].parses
    /\ visitor[f].visited < Len(fs.content[f].body)
    /\ LET stmt == fs.content[f].body[visitor[f].visited + 1]
           base == base_import_path(stmt, f, python_root)
       IN  IF stmt.type = "Import"
           THEN /\ visitor' = [visitor EXCEPT
                       ![f].visited = @ + 1,
                       ![f].imports = @ \o from_import(stmt, python_root)]
                /\ UNCHANGED <<pc, panic>>
           ELSE IF base = NoPath
           THEN /\ visitor' = [visitor EXCEPT ![f].visited = @ + 1, ![f].base = base]
                /\ Abort("relative_import")
           ELSE /\ visitor' = [visitor EXCEPT
                       ![f].visited = @ + 1,
                       ![f].base = base,
                       ![f].imports = @ \o from_import_from(stmt, base, python_root)]
                /\ UNCHANGED <<pc, panic>>
    /\ UNCHANGED <<fs, args, walk_pending, target_paths, python_root, all_paths,
                   imports_queue, imports, imports_hash_set, potentially_dead_modules,
                   dead_files, stdin_terminal, output>>

\* compile_imports, lines 113-115: the task pushes its next import.
TaskPush(f) ==
    /\ pc = "compile"
    /\ f \in all_paths
    /\ fs.content[f].parses
    /\ visitor[f].visited = Len(fs.content[f].body)
    /\ visitor[f].pushed < Len(visitor[f].imports)
    /\ imports_queue' = Append(imports_queue, visitor[f].imports[visitor[f].pushed + 1])
    /\ visitor' = [visitor EXCEPT ![f].pushed = @ + 1]
    /\ UNCHANGED <<fs, args, pc, panic, walk_pending, target_paths, python_root, all_paths,
                   imports, imports_hash_set, potentially_dead_modules, dead_files,
                   stdin_terminal, output>>

\* compile_imports, lines 120-122: the tasks are joined and the queue is
\* drained into the Vec it returns.
CollectImports ==
    /\ pc = "compile"
    /\ AllProducersDone
    /\ pc' = "resolve"
    /\ UNCHANGED <<fs, args, panic, walk_pending, target_paths, python_root, all_paths,
                   visitor, imports_queue, imports, imports_hash_set,
                   potentially_dead_modules, dead_files, stdin_terminal, output>>

\* main.rs:44-46
ResolveImports ==
    /\ pc = "resolve"
    /\ imports' = resolve_imports(imports_queue)
    /\ imports_hash_set' = SeqToSet(resolve_imports(imports_queue))
    /\ pc' = "classify"
    /\ UNCHANGED <<fs, args, panic, walk_pending, target_paths, python_root, all_paths,
                   visitor, imports_queue, potentially_dead_modules, dead_files,
                   stdin_terminal, output>>

\* main.rs:34-41 and 48-50: the lazy filter runs with the map; collect()
\* keeps the order of target_paths.
Classify ==
    /\ pc = "classify"
    /\ potentially_dead_modules' =
          LET kept == SelectSeq(target_paths, no_entrypoint)
          IN  [i \in 1..Len(kept) |-> render_as_import_string(kept[i], python_root)]
    /\ pc' = "filter"
    /\ UNCHANGED <<fs, args, panic, walk_pending, target_paths, python_root, all_paths,
                   visitor, imports_queue, imports, imports_hash_set, dead_files,
                   stdin_terminal, output>>

NotImported(module) == module \notin imports_hash_set

\* main.rs:52-56
FilterDead ==
    /\ pc = "filter"
    /\ dead_files' =
          LET kept == SelectSeq(potentially_dead_modules, NotImported)
          IN  [i \in 1..Len(kept) |-> dead_file_path(kept[i])]
    /\ pc' = "sort"
    /\ UNCHANGED <<fs, args, panic, walk_pending, target_paths, python_root, all_paths,
                   visitor, imports_queue, imports, imports_hash_set,
                   potentially_dead_modules, stdin_terminal, output>>

\* main.rs:57
SortDead ==
    /\ pc = "sort"
    /\ dead_files' = Sort(dead_files)
    /\ pc' = "print_separator"
    /\ UNCHANGED <<fs, args, panic, walk_pending, target_paths, python_root, all_paths,
                   visitor, imports_queue, imports, imports_hash_set,
                   potentially_dead_modules, stdin_terminal, output>>

\* main.rs:61: the first print call; is_terminal() reads the process's stdin,
\* which the run does not change.
PrintFirstSeparator ==
    /\ pc = "print_separator"
    /\ \E t \in {"tty", "notty"}, w \in TerminalWidths :
          /\ stdin_terminal' = t
          /\ output' = Append(output, print(t, Separator, w))
    /\ pc' = "print_files"
    /\ UNCHANGED <<fs, args, panic, walk_pending, target_paths, python_root, all_paths,
                   visitor, imports_queue, imports, imports_hash_set,
                   potentially_dead_modules, dead_files>>

\* main.rs:62-70: the next dead file is printed.
PrintDeadFile ==
    /\ pc = "print_files"
    /\ Len(output) <= Len(dead_files)
    /\ LET dead_file == dead_files[Len(output)]
       IN  output' = Append(output,
                print(stdin_terminal, DeadFile(dead_file, Join(python_root, dead_file)), 0))
    /\ UNCHANGED <<fs, args, pc, panic, walk_pending, target_paths, python_root, all_paths,
                   visitor, imports_queue, imports, imports_hash_set,
                   potentially_dead_modules, dead_files, stdin_terminal>>

\* main.rs:71
PrintSecondSeparator ==
    /\ pc = "print_files"
    /\ Len(output) = Len(dead_files) + 1
    /\ \E w \in TerminalWidths :
          output' = Append(output, print(stdin_terminal, Separator, w))
    /\ pc' = "print_stats"
    /\ UNCHANGED <<fs, args, panic, walk_pending, target_paths, python_root, all_paths,
                   visitor, imports_queue, imports, imports_hash_set,
                   potentially_dead_modules, dead_files, stdin_terminal>>

\* main.rs:72-80 (the elapsed time of Stats is left out)
PrintStats ==
    /\ pc = "print_stats"
    /\ output' = Append(output,
          print(stdin_terminal, Stats(Cardinality(all_paths), Len(dead_files)), 0))
    /\ pc' = "done"
    /\ UNCHANGED <<fs, args, panic, walk_pending, target_paths, python_root, all_paths,
                   visitor, imports_queue, imports, imports_hash_set,
                   potentially_dead_modules, dead_files, stdin_terminal>>

Next ==
    \/ ResolvePaths
    \/ WalkVisit
    \/ FindRoot
    \/ WalkRoot
    \/ \E f \in fs.files : TaskParseError(f)
    \/ \E f \in fs.files : TaskVisit(f)
    \/ \E f \in fs.files : TaskPush(f)
    \/ CollectImports
    \/ ResolveImports
    \/ Classify
    \/ FilterDead
    \/ SortDead
    \/ PrintFirstSeparator
    \/ PrintDeadFile
    \/ PrintSecondSeparator
    \/ PrintStats

Spec == Init /\ [][Next]_vars

\* ------------------------------------------------- reference definitions

\* dead_files holds the list handed to the printer.
Reported == pc \in {"print_separator", "print_files", "print_stats", "done"}

\* The queue has been drained.
Collected == pc \in {"resolve", "classify", "filter", "sort"} \/ Reported

\* imports_hash_set has been built.
Resolved == pc \in {"classify", "filter", "sort"} \/ Reported

\* The number of directories above a path: one for each separator.
NumAncestors(p) == Cardinality({i \in 1..Len(p) : p[i] = "/"})

\* The directory n levels above a path, read off the path's text: what
\* precedes its n-th separator from the right.
DirAbove(p, n) ==
    LET seps == {i \in 1..Len(p) : p[i] = "/"}
        k == CHOOSE i \in seps : Cardinality({j \in seps : j >= i}) = n
    IN  IF k = 1 THEN <<"/">> ELSE SubSeq(p, 1, k - 1)

\* A relative import that ascends past the filesystem root.
AscendsPastRoot(f, stmt) ==
    stmt.type = "ImportFrom" /\ stmt.has_level /\ stmt.level > NumAncestors(f)

\* What one statement resolves to; nothing when it ascends past the root.
ImportsOfStmt(stmt, f, root) ==
    IF stmt.type = "Import" THEN from_import(stmt, root)
    ELSE IF AscendsPastRoot(f, stmt) THEN <<>>
    ELSE from_import_from(stmt, base_import_path(stmt, f, root), root)

\* What a file's statements resolve to, in order; nothing when it does not parse.
RECURSIVE ImportsOfBody(_, _, _)
ImportsOfBody(body, f, root) ==
    IF body = <<>> THEN <<>>
    ELSE ImportsOfStmt(Head(body), f, root) \o ImportsOfBody(Tail(body), f, root)

ImportsOfFile(f, root) ==
    IF fs.content[f].parses THEN ImportsOfBody(fs.content[f].body, f, root) ELSE <<>>

\* The ImportedSet of the files paths under root.
ImportedSetOf(paths, root) ==
    UNION {SeqToSet(resolve_imports(ImportsOfFile(f, root))) : f \in paths}

\* A set of walk entries as a sequence, in some order.
RECURSIVE EntriesInOrder(_)
EntriesInOrder(es) ==
    IF es = {} THEN <<>>
    ELSE LET e == CHOOSE x \in es : TRUE IN <<e[2]>> \o EntriesInOrder(es \ {e})

\* The sorted dead-file list of the run that locates the root from file first.
DeadFilesFrom(first) ==
    LET root == find_python_project_root(first)
        imported == ImportedSetOf({f \in fs.files : Under(f, root)}, root)
        kept == SelectSeq(EntriesInOrder(walk_entries(args)), no_entrypoint)
        modules == [i \in 1..Len(kept) |-> render_as_import_string(kept[i], root)]
        dead == SelectSeq(modules, LAMBDA m : m \notin imported)
    IN  Sort([i \in 1..Len(dead) |-> dead_file_path(dead[i])])

IsSorted(s) == \A i \in 1..(Len(s) - 1) : ~StrLess(s[i + 1], s[i])

NoDuplicates(s) == \A i, j \in 1..Len(s) : i # j => s[i] # s[j]

\* A file's path relative to the root, as the report renders paths.
RelativePath(f, root) == StripPrefixOr(f, root \o MAIN_SEPARATOR_STR)

\* ------------------------------------------------------------------ claims

\* The end-to-end project: the root holds exactly a.py, without the
\* entrypoint idiom, and b.py, with the idiom and "import a"; the target is
\* the root.
EndToEndProject ==
    /\ fs.files = {FileRa, FileRb}
    /\ fs.markers = {DirR}
    /\ args = <<DirR>>
    /\ ~fs.content[FileRa].main
    /\ fs.content[FileRb].main
    /\ fs.content[FileRb].body = <<StmtImport(<<NameA>>)>>

\* C1 as stated: on the end-to-end project the run reports exactly one dead
\* file, a.py.
C1_ReportsADead == (EndToEndProject /\ Reported) => dead_files = <<FileName(FileRa)>>

\* C1, amended: on the end-to-end project the run reports no dead file: b.py
\* is an entrypoint, and a.py is imported by b.py, so "a" is in the
\* ImportedSet.
C1_ReportsNothing ==
    (EndToEndProject /\ Reported) => (dead_files = <<>> /\ NameA \in imports_hash_set)

C1_Witness == EndToEndProject /\ pc = "done" /\ potentially_dead_modules = <<NameA>>

\* C2: no entry of the dead-file list is the relative path of a file of the
\* project that is named exactly __init__.py.
C2_InitNeverDead ==
    Reported =>
        \A f \in fs.files :
            FileName(f) = PYTHON_INIT_FILE =>
                \A i \in 1..Len(dead_files) : dead_files[i] # RelativePath(f, python_root)

\* C3: the final dead-file list is sorted and holds no path twice, also when
\* the target paths overlap.
C3_SortedNoDuplicates == Reported => (IsSorted(dead_files) /\ NoDuplicates(dead_files))

\* C4: the reported list does not depend on which enumerated file is first in
\* the queue: it is the list of the run that locates the root from any of them.
C4_Deterministic ==
    Reported => \A e \in walk_entries(args) : dead_files = DeadFilesFrom(e[2])

\* C5 as stated: with is_terminal() false, the lines written are the bare
\* dead-file paths only, in sorted order, with no separator and no summary.
C5_OnlyBarePaths ==
    (pc = "done" /\ stdin_terminal = "notty") =>
        output = [i \in 1..Len(dead_files) |->
                    [form |-> "plain", kind |-> "DeadFile", repr |-> dead_files[i],
                     width |-> 0, colour |-> "none", link |-> NoPath,
                     scanned_files |-> 0, dead_files |-> 0]]

PlainSeparatorBlock ==
    [form |-> "plain", kind |-> "Separator", repr |-> <<>>, width |-> DEFAULT_SEPARATOR_SIZE,
     colour |-> "none", link |-> NoPath, scanned_files |-> 0, dead_files |-> 0]

\* C5, amended: when stdin is not a terminal (the test the code makes), the
\* run writes a plain separator block, the bare dead-file paths one per line in
\* sorted order, a second separator block and the Debug rendering of the
\* statistics; nothing written carries a colour or a hyperlink.
C5_PlainReport ==
    (pc = "done" /\ stdin_terminal = "notty") =>
        /\ IsSorted(dead_files)
        /\ output =
              <<PlainSeparatorBlock>>
              \o [i \in 1..Len(dead_files) |->
                    [form |-> "plain", kind |-> "DeadFile", repr |-> dead_files[i],
                     width |-> 0, colour |-> "none", link |-> NoPath,
                     scanned_files |-> 0, dead_files |-> 0]]
              \o <<PlainSeparatorBlock,
                   [form |-> "plain", kind |-> "Stats", repr |-> <<>>, width |-> 0,
                    colour |-> "none", link |-> NoPath,
                    scanned_files |-> Cardinality(all_paths),
                    dead_files |-> Len(dead_files)]>>

C5_Witness == pc = "done" /\ stdin_terminal = "notty" /\ Len(dead_files) = 2

\* C6: a relative import that ascends past the filesystem root does not abort
\* the run and contributes nothing to a file's imports.
C6_InvalidRelativeImportIsolated ==
    \A f \in DOMAIN visitor :
        \A i \in 1..visitor[f].visited :
            AscendsPastRoot(f, fs.content[f].body[i]) =>
                (panic = "none" /\ pc # "panicked")

\* The statement a file's visitor took last is an absolute "from S import
\* n1, ..., nk" whose root/S is neither a file nor a directory (and root/S.py
\* is no file either: nothing on disk answers to S).
AbsoluteFromMissingSource(f) ==
    /\ visitor[f].visited = 1
    /\ Len(fs.content[f].body) = 1
    /\ LET stmt == fs.content[f].body[1]
       IN  /\ stmt.type = "ImportFrom"
           /\ (~stmt.has_level \/ stmt.level = 0)
           /\ stmt.has_module
           /\ ~exists(Join(python_root, Replace(stmt.module, ".", "/")))
           /\ ~exists(Join(python_root, Replace(stmt.module, ".", "/")) \o PYTHON_EXTENSION)

\* C7: such a statement resolves to the k imports Module("S.n1") ...
\* Module("S.nk"), in the order of the names.
C7_OneModulePerName ==
    \A f \in DOMAIN visitor :
        AbsoluteFromMissingSource(f) =>
            LET stmt == fs.content[f].body[1]
            IN  visitor[f].imports =
                    [i \in 1..Len(stmt.names) |->
                        Module(stmt.module \o <<".">> \o stmt.names[i])]

\* C8: the base directory of a "from" import with level N > 0 that does not
\* ascend past the filesystem root is the directory N levels above the
\* importing file, wherever the project root is; with level 0 or no level it
\* is the project root.
C8_RelativeLevelBase ==
    \A f \in DOMAIN visitor :
        (visitor[f].visited >= 1 /\ fs.content[f].body[visitor[f].visited].type = "ImportFrom")
        => LET stmt == fs.content[f].body[visitor[f].visited]
           IN  IF stmt.has_level /\ stmt.level > 0
               THEN stmt.level <= NumAncestors(f) => visitor[f].base = DirAbove(f, stmt.level)
               ELSE visitor[f].base = python_root

\* From /r/s/a.py under the root /r/s, level 2 resolves to /r, above the root.
C8_Witness ==
    /\ FileSa \in DOMAIN visitor
    /\ python_root = DirS
    /\ visitor[FileSa].visited = 1
    /\ fs.content[FileSa].body[1].type = "ImportFrom"
    /\ fs.content[FileSa].body[1].has_level
    /\ fs.content[FileSa].body[1].level = 2
    /\ visitor[FileSa].base = DirR

\* C9: every resolved Package(d) is in the ImportedSet as d + ".__init__",
\* the dotted form of the file d/__init__.py under the root, and in no other
\* form.
C9_PackageAsInitializer ==
    Resolved =>
        \A i \in 1..Len(imports_queue) :
            imports_queue[i].kind = "Package" =>
                /\ imports[i] = imports_queue[i].name \o <<".", "__init__">>
                /\ imports[i] =
                      render_as_import_string(
                          Join(Join(python_root, Replace(imports_queue[i].name, ".", "/")),
                               PYTHON_INIT_FILE),
                          python_root)

\* C10: the queue is drained only after every resolver task has finished, and
\* the ImportedSet then holds exactly the resolved imports of the files under
\* the root, whatever the order in which the tasks ran and pushed.
C10_OrderIndependent ==
    Collected =>
        LET expected == ImportedSetOf(all_paths, python_root)
        IN  /\ \A f \in all_paths : TaskDone(f)
            /\ SeqToSet(resolve_imports(imports_queue)) = expected
            /\ Resolved => imports_hash_set = expected

\* Two files have pushed, and an import was pushed more often than the set
\* holds it.
C10_Witness ==
    /\ Resolved
    /\ Len(imports_queue) > Cardinality(imports_hash_set)
    /\ \E f, g \in all_paths :
          /\ f # g
          /\ visitor[f].pushed > 0
          /\ visitor[g].pushed > 0

====
